---------------------------- MODULE Spec2Model ----------------------------
(***************************************************************************)
(* A model of faunadb/client.py: the Client class, its constructor, its    *)
(* public methods (get/post/put/patch/delete/query/ping), the private      *)
(* executor _execute with its logging and non-logging branches, the        *)
(* status-code dispatch _handle_response and the secret parser             *)
(* _parse_secret.                                                          *)
(*                                                                         *)
(* Two Client objects are constructed and driven against a stub server     *)
(* that serves one scripted response; a call is executed in two steps, the *)
(* part of _execute up to session.send (Invoke) and the part after the     *)
(* response has arrived (Receive).                                         *)
(*                                                                         *)
(* Encoding of Python values.  A value is a record                         *)
(*   [t, i, s, d]  with t in {"none","int","str","dict"},                  *)
(* i the int, s the string, d the dict as a set of <<key, value>> pairs.   *)
(* A Python str that is inspected character by character (a secret) is a   *)
(* sequence of one-character strings.                                      *)
(***************************************************************************)
EXTENDS Integers, Sequences, FiniteSets, TLC

\* ------------------------------------------------------------------ bounds

\* Secret strings have at most MaxSecretLen characters.
MaxSecretLen == 5
\* Secret tuples have at most MaxTupleLen entries.
MaxTupleLen == 3
\* Non-null query parameter values are the ints 0..MaxQueryValue.
MaxQueryValue == 0

\* ------------------------------------------------------------- Python values

PyNone == [t |-> "none", i |-> 0, s |-> "", d |-> {}]
PyInt(n) == [t |-> "int", i |-> n, s |-> "", d |-> {}]
PyStr(x) == [t |-> "str", i |-> 0, s |-> x, d |-> {}]
PyDict(pairs) == [t |-> "dict", i |-> 0, s |-> "", d |-> pairs]

\* Python truthiness (the test `if data:`).
Truthy(v) ==
  CASE v.t = "none" -> FALSE
    [] v.t = "int"  -> v.i # 0
    [] v.t = "str"  -> v.s # ""
    [] v.t = "dict" -> v.d # {}

HasKey(v, k) == \E kv \in v.d : kv[1] = k
Lookup(v, k) == (CHOOSE kv \in v.d : kv[1] = k)[2]

\* ------------------------------------------------------------- JSON codec

\* to_json: a value to its JSON text.
ToJson(v) == [json |-> TRUE, val |-> v]
\* A response text that is not JSON.
Garbage == [json |-> FALSE, val |-> PyNone]
\* parse_json: the text's value, or a parse failure.
ParseJson(text) ==
  IF text.json THEN [ok |-> TRUE, val |-> text.val]
  ELSE [ok |-> FALSE, val |-> PyNone]

\* ------------------------------------------------------------- secrets

SecretChars == {"u", ":"}
TupleEntries == {<<"u">>, <<"p">>}

SeqsUpTo(S, n) == UNION {[1..k -> S] : k \in 0..n}

\* secret=None, a tuple of strings, or a string.
NoSecret == [kind |-> "none", items |-> <<>>]
TupleSecret(entries) == [kind |-> "tuple", items |-> entries]
StrSecret(chars) == [kind |-> "str", items |-> <<chars>>]

AllSecrets ==
  {NoSecret}
    \cup {TupleSecret(e) : e \in SeqsUpTo(TupleEntries, MaxTupleLen)}
    \cup {StrSecret(s) : s \in SeqsUpTo(SecretChars, MaxSecretLen)}

\* s.split(":", 1)
HasColon(s) == \E i \in 1..Len(s) : s[i] = ":"
FirstColon(s) == CHOOSE i \in 1..Len(s) : s[i] = ":" /\ \A j \in 1..(i-1) : s[j] # ":"
SplitAllColons(s) ==
  IF ~HasColon(s) THEN <<s>>
  ELSE <<SubSeq(s, 1, FirstColon(s) - 1),
         SelectSeq(SubSeq(s, FirstColon(s) + 1, Len(s)), LAMBDA ch : ch # ":")>>
SplitFirstColon(s) ==
  IF ~HasColon(s) THEN <<s>>
  ELSE <<SubSeq(s, 1, FirstColon(s) - 1), SubSeq(s, FirstColon(s) + 1, Len(s))>>

\* Client._parse_secret: the credentials pair, or FaunaError raised.
ParseSecret(secret) ==
  IF secret.kind = "tuple"
  THEN IF Len(secret.items) # 2
       THEN [raised |-> TRUE, pair |-> <<>>]
       ELSE [raised |-> FALSE, pair |-> secret.items]
  ELSE LET pair == SplitFirstColon(secret.items[1]) IN
       [raised |-> FALSE,
        pair |-> IF Len(pair) = 1 THEN Append(pair, <<>>) ELSE pair]

\* ------------------------------------------------------------- constructor

Clients == {"a", "b"}

\* The arguments of Client(logger, domain, scheme, port, timeout, secret);
\* logger and port are "None" when left out, timeout is not modelled.
CtorArgs(logger, scheme, port, secret) ==
  [logger |-> logger, domain |-> "rest.faunadb.com", scheme |-> scheme,
   port |-> port, secret |-> secret]

NoAuth == [isNone |-> TRUE, pair |-> <<>>]
NotConstructed ==
  [state |-> "new", secretArg |-> NoSecret, logger |-> "None",
   base_url |-> <<>>, auth |-> NoAuth]

\* Client.__init__: the constructed object, or the object-less state left by
\* the FaunaError of _parse_secret.
DefaultPort(scheme) == IF scheme = "https" THEN "443" ELSE "80"
NewClient(args) ==
  LET port == IF args.port = "None" THEN DefaultPort(args.scheme) ELSE args.port
      parsed == IF args.secret.kind = "none"
                THEN [raised |-> FALSE, pair |-> <<>>]
                ELSE ParseSecret(args.secret)
  IN IF parsed.raised
     THEN [NotConstructed EXCEPT !.state = "failed", !.secretArg = args.secret]
     ELSE [state |-> "ready",
           secretArg |-> args.secret,
           logger |-> args.logger,
           base_url |-> <<args.scheme, "://", args.domain, ":", port>>,
           auth |-> IF args.secret.kind = "none" THEN NoAuth
                    ELSE [isNone |-> FALSE, pair |-> parsed.pair]]

\* ------------------------------------------------------------- calls

\* A path is a str or a Ref holding one.
StrPath(x) == [isRef |-> FALSE, value |-> x]
RefPath(x) == [isRef |-> TRUE, value |-> x]
Paths == {StrPath("classes/frogs"), RefPath("classes/frogs/123")}

\* A query is None or a dict, kept as a set of <<key, value>> pairs.
NoQuery == [isNone |-> TRUE, items |-> {}]
QueryDict(items) == [isNone |-> FALSE, items |-> items]
QueryKeys == {"scope", "timeout"}
QueryValues == {PyNone} \cup {PyInt(n) : n \in 0..MaxQueryValue}
Queries ==
  {NoQuery} \cup
  {QueryDict({<<k, f[k]>> : k \in K}) : f \in [QueryKeys -> QueryValues], K \in SUBSET QueryKeys}

Datas == {PyNone, PyDict({<<"name", "Scamper">>})}

NoCall ==
  [method |-> "none", path |-> StrPath(""), query |-> NoQuery, data |-> PyNone,
   scope |-> PyNone, timeout |-> PyNone]
GetCall(path, query) == [NoCall EXCEPT !.method = "get", !.path = path, !.query = query]
DataCall(m, path, data) == [NoCall EXCEPT !.method = m, !.path = path, !.data = data]
QueryCall(expression) == [NoCall EXCEPT !.method = "query", !.data = expression]
PingCall(scope, timeout) == [NoCall EXCEPT !.method = "ping", !.scope = scope, !.timeout = timeout]

DataMethods == {"post", "put", "patch", "delete"}
AllCalls ==
  {GetCall(p, q) : p \in Paths, q \in Queries}
    \cup {DataCall(m, p, d) : m \in DataMethods, p \in Paths, d \in Datas}
    \cup {QueryCall(d) : d \in Datas}
    \cup {PingCall(s, t) : s \in QueryValues, t \in QueryValues}

\* The arguments of _execute(action, path, data=None, query=None).
ExecuteCall(action, path, data, query) ==
  [action |-> action, path |-> path, data |-> data, query |-> query]

Get(path, query) == ExecuteCall("GET", path, PyNone, query)
Post(path, data) == ExecuteCall("POST", path, data, NoQuery)
Put(path, data) == ExecuteCall("PUT", path, data, NoQuery)
Patch(path, data) == ExecuteCall("PATCH", path, data, NoQuery)
DeleteAsPost(path, data) == ExecuteCall("POST", path, data, NoQuery)
Delete(path, data) == ExecuteCall("DELETE", path, data, NoQuery)
Query(expression) == ExecuteCall("POST", StrPath(""), expression, NoQuery)
Ping(scope, timeout) ==
  Get(StrPath("ping"), QueryDict({<<"scope", scope>>, <<"timeout", timeout>>}))

\* The public method a call names, applied to the call's arguments.
Dispatch(c) ==
  CASE c.method = "get"    -> Get(c.path, c.query)
    [] c.method = "post"   -> Post(c.path, c.data)
    [] c.method = "put"    -> Put(c.path, c.data)
    [] c.method = "patch"  -> Patch(c.path, c.data)
    [] c.method = "delete" -> Delete(c.path, c.data)
    [] c.method = "query"  -> Query(c.data)
    [] c.method = "ping"   -> Ping(c.scope, c.timeout)

\* _execute, lines 156-159: a Ref gives its value, null query values go.
NormalizePath(path) == path.value
NormalizeQueryTruthy(query) ==
  IF query.isNone THEN query
  ELSE QueryDict({kv \in query.items : Truthy(kv[2])})
NormalizeQuery(query) ==
  IF query.isNone THEN query
  ELSE QueryDict({kv \in query.items : kv[2].t # "none"})

\* _execute_without_logging: the request handed to session.send.
ExecuteWithoutLogging(cl, action, path, data, query) ==
  [action |-> action,
   url |-> cl.base_url \o <<"/">> \o <<path>>,
   params |-> query,
   data |-> ToJson(data),
   auth |-> cl.auth]

\* ------------------------------------------------------------- responses

bad_request == 400
unauthorized == 401
forbidden == 403
not_found == 404
method_not_allowed == 405
internal_server_error == 500
unavailable == 503

Statuses == {199, 200, 299, 300, 400, 401, 403, 404, 405, 418, 500, 502, 503}
Bodies ==
  {Garbage,
   ToJson(PyDict({<<"resource", "r1">>})),
   ToJson(PyDict({<<"errors", "e1">>})),
   ToJson(PyNone)}
Responses == [status_code : Statuses, text : Bodies]
NoResponse == [status_code |-> 0, text |-> Garbage]

\* What a call gives its caller: nothing yet, a value, or an exception with
\* the arguments it was constructed with.
NoOutcome == [kind |-> "none", type |-> "", args |-> <<>>]
Return(v) == [kind |-> "return", type |-> "", args |-> <<v>>]
Raise(type, args) == [kind |-> "raise", type |-> type, args |-> args]

\* response_dict["resource"]
ResourceOf(response_dict) ==
  IF response_dict.t # "dict" THEN Raise("TypeError", <<>>)
  ELSE IF ~HasKey(response_dict, "resource") THEN Raise("KeyError", <<PyStr("resource")>>)
  ELSE Return(PyStr(Lookup(response_dict, "resource")))

\* Client._handle_response, lines 208-223: the error class of a status code.
ErrorClassSwapped(code) ==
  IF code = bad_request THEN "BadRequest"
  ELSE IF code = unauthorized THEN "PermissionDenied"
  ELSE IF code = forbidden THEN "Unauthorized"
  ELSE IF code = not_found THEN "NotFound"
  ELSE IF code = method_not_allowed THEN "MethodNotAllowed"
  ELSE IF code = internal_server_error THEN "InternalError"
  ELSE IF code = unavailable THEN "UnavailableError"
  ELSE "FaunaHTTPError"
ErrorClass(code) ==
  IF code = bad_request THEN "BadRequest"
  ELSE IF code = unauthorized THEN "Unauthorized"
  ELSE IF code = forbidden THEN "PermissionDenied"
  ELSE IF code = not_found THEN "NotFound"
  ELSE IF code = method_not_allowed THEN "MethodNotAllowed"
  ELSE IF code = internal_server_error THEN "InternalError"
  ELSE IF code = unavailable THEN "UnavailableError"
  ELSE "FaunaHTTPError"

\* Client._handle_response
HandleResponseBelow299(code, response_dict) ==
  IF 200 <= code /\ code < 299 THEN ResourceOf(response_dict)
  ELSE Raise(ErrorClass(code), <<response_dict>>)
HandleResponseStatusOnly(code, response_dict) ==
  IF 200 <= code /\ code <= 299 THEN ResourceOf(response_dict)
  ELSE Raise(ErrorClass(code), <<PyInt(code)>>)
HandleResponse(code, response_dict) ==
  IF 200 <= code /\ code <= 299 THEN ResourceOf(response_dict)
  ELSE Raise(ErrorClass(code), <<response_dict>>)

\* ------------------------------------------------------------- state

VARIABLES
  debugLogger,  \* the module's _debug_logger is set (FAUNA_DEBUG)
  client,       \* each Client object: its construction state and attributes
  call,         \* the public-method call the clients are asked to make
  server,       \* the response the stub server serves
  pc,           \* each client's place in the call: idle, waiting, done
  sent,         \* the request each client's call handed to session.send
  sends,        \* the number of session.send calls of each client's call
  outcome,      \* what each client's call gave its caller
  log           \* the lines each client's call emitted, in order

vars == <<debugLogger, client, call, server, pc, sent, sends, outcome, log>>

NoRequest ==
  [action |-> "", url |-> <<>>, params |-> NoQuery, data |-> Garbage, auth |-> NoAuth]

\* Client._log: one line to each sink that is set, the debug logger first.
\* A line is kept as its sink, its indentation and its leading words.
Log(cl, indented, kind) ==
  (IF debugLogger
   THEN <<[sink |-> "debug", indented |-> indented, kind |-> kind]>> ELSE <<>>)
  \o (IF cl.logger # "None"
      THEN <<[sink |-> "logger", indented |-> indented, kind |-> kind]>> ELSE <<>>)

\* _execute, line 161
LoggingEnabled(cl) == cl.logger # "None" \/ debugLogger

\* _execute, lines 162-170: the lines logged before the request is sent.
LogRequest(cl, data) ==
  Log(cl, FALSE, "Fauna")
  \o (IF cl.auth.isNone THEN Log(cl, TRUE, "Credentials: None")
      ELSE Log(cl, TRUE, "Credentials"))
  \o (IF Truthy(data) THEN Log(cl, TRUE, "Request JSON") ELSE <<>>)

\* _execute, lines 174-189: the logging branch once the response is there.
ExecuteTailLoggingLenient(cl, response) ==
  LET parsed == ParseJson(response.text) IN
  [outcome |-> HandleResponse(response.status_code, parsed.val),
   lines |-> Log(cl, TRUE, "Response headers")
             \o Log(cl, TRUE, "Response JSON")
             \o Log(cl, TRUE, "Response")]
ExecuteTailLogging(cl, response) ==
  LET parsed == ParseJson(response.text) IN
  IF ~parsed.ok
  THEN [outcome |-> Raise("ParseError", <<>>), lines |-> <<>>]
  ELSE [outcome |-> HandleResponse(response.status_code, parsed.val),
        lines |-> Log(cl, TRUE, "Response headers")
                  \o Log(cl, TRUE, "Response JSON")
                  \o Log(cl, TRUE, "Response")]

\* _execute, lines 191-193: the other branch once the response is there.
ExecuteTailPlainStatusFirst(response) ==
  LET parsed == ParseJson(response.text) IN
  IF 200 <= response.status_code /\ response.status_code <= 299 /\ ~parsed.ok
  THEN [outcome |-> Raise("ParseError", <<>>), lines |-> <<>>]
  ELSE [outcome |-> HandleResponse(response.status_code, parsed.val), lines |-> <<>>]
ExecuteTailPlain(response) ==
  LET parsed == ParseJson(response.text) IN
  IF ~parsed.ok
  THEN [outcome |-> Raise("ParseError", <<>>), lines |-> <<>>]
  ELSE [outcome |-> HandleResponse(response.status_code, parsed.val), lines |-> <<>>]

\* ------------------------------------------------------------- actions

\* Client(...) is constructed, before the first call is made.
Construct(c, args) ==
  /\ client[c].state = "new"
  /\ call = NoCall
  /\ client' = [client EXCEPT ![c] = NewClient(args)]
  /\ UNCHANGED <<debugLogger, call, server, pc, sent, sends, outcome, log>>

\* The next call to make and the response the server will give it.
NewCall(m, response) ==
  /\ call = NoCall
  /\ \E c \in Clients : client[c].state = "ready"
  /\ \A c \in Clients : client[c].state # "new"
  /\ call' = m
  /\ server' = response
  /\ UNCHANGED <<debugLogger, client, pc, sent, sends, outcome, log>>

\* The callers are through with the call: its results are dropped.
Forget ==
  /\ call # NoCall
  /\ \A c \in Clients : pc[c] # "waiting"
  /\ call' = NoCall
  /\ server' = NoResponse
  /\ pc' = [c \in Clients |-> "idle"]
  /\ sends' = [c \in Clients |-> 0]
  /\ outcome' = [c \in Clients |-> NoOutcome]
  /\ log' = [c \in Clients |-> <<>>]
  /\ sent' = [c \in Clients |-> NoRequest]
  /\ UNCHANGED <<debugLogger, client>>

\* The public method runs _execute up to session.send.
Invoke(c) ==
  /\ client[c].state = "ready"
  /\ call # NoCall
  /\ pc[c] = "idle"
  /\ LET e == Dispatch(call)
         path == NormalizePath(e.path)
         query == NormalizeQuery(e.query)
         cl == client[c]
     IN /\ log' = [log EXCEPT ![c] =
                     IF LoggingEnabled(cl) THEN LogRequest(cl, e.data) ELSE <<>>]
        /\ sent' = [sent EXCEPT ![c] =
                          ExecuteWithoutLogging(cl, e.action, path, e.data, query)]
  /\ sends' = [sends EXCEPT ![c] = @ + 1]
  /\ pc' = [pc EXCEPT ![c] = "waiting"]
  /\ UNCHANGED <<debugLogger, client, call, server, outcome>>

\* session.send returns the server's response; _execute parses and maps it.
ReceiveRetrying(c) ==
  /\ pc[c] = "waiting"
  /\ IF server.status_code = unavailable /\ sends[c] < 2
     THEN /\ sends' = [sends EXCEPT ![c] = @ + 1]
          /\ UNCHANGED <<pc, outcome, log>>
     ELSE /\ LET cl == client[c]
                 tail == IF LoggingEnabled(cl) THEN ExecuteTailLogging(cl, server)
                         ELSE ExecuteTailPlain(server)
             IN /\ outcome' = [outcome EXCEPT ![c] = tail.outcome]
                /\ log' = [log EXCEPT ![c] = @ \o tail.lines]
          /\ pc' = [pc EXCEPT ![c] = "done"]
          /\ UNCHANGED sends
  /\ UNCHANGED <<debugLogger, client, call, server, sent>>
Receive(c) ==
  /\ pc[c] = "waiting"
  /\ LET cl == client[c]
         tail == IF LoggingEnabled(cl) THEN ExecuteTailLogging(cl, server)
                 ELSE ExecuteTailPlain(server)
     IN /\ outcome' = [outcome EXCEPT ![c] = tail.outcome]
        /\ log' = [log EXCEPT ![c] = @ \o tail.lines]
  /\ pc' = [pc EXCEPT ![c] = "done"]
  /\ UNCHANGED <<debugLogger, client, call, server, sent, sends>>

Init ==
  /\ debugLogger \in BOOLEAN
  /\ client = [c \in Clients |-> NotConstructed]
  /\ call = NoCall
  /\ server = NoResponse
  /\ pc = [c \in Clients |-> "idle"]
  /\ sent = [c \in Clients |-> NoRequest]
  /\ sends = [c \in Clients |-> 0]
  /\ outcome = [c \in Clients |-> NoOutcome]
  /\ log = [c \in Clients |-> <<>>]

\* The constructor arguments the calls are explored under.
FewCtorArgs ==
  {CtorArgs("None", "https", "None", NoSecret),
   CtorArgs("L", "https", "None", NoSecret),
   CtorArgs("L", "http", "8443", StrSecret(<<"u", ":", "p">>))}

Next ==
  \/ \E c \in Clients, args \in FewCtorArgs : Construct(c, args)
  \/ \E m \in AllCalls, response \in Responses : NewCall(m, response)
  \/ \E c \in Clients : Invoke(c)
  \/ \E c \in Clients : Receive(c)
  \/ Forget

Spec == Init /\ [][Next]_vars

\* The constructor's secrets explored in full, under a few calls.
WideCtorArgs ==
  {CtorArgs(l, "https", "None", secret) : l \in {"None", "L"}, secret \in AllSecrets}
FewCalls ==
  {GetCall(StrPath("classes/frogs"), NoQuery),
   QueryCall(PyDict({<<"name", "Scamper">>}))}
FewResponses ==
  {[status_code |-> 200, text |-> ToJson(PyDict({<<"resource", "r1">>}))],
   [status_code |-> 404, text |-> ToJson(PyDict({<<"errors", "e1">>}))]}

NextSecret ==
  \/ \E args \in WideCtorArgs : Construct("a", args)
  \/ \E args \in FewCtorArgs : Construct("b", args)
  \/ \E m \in FewCalls, response \in FewResponses : NewCall(m, response)
  \/ \E c \in Clients : Invoke(c)
  \/ \E c \in Clients : Receive(c)
  \/ Forget

SpecSecret == Init /\ [][NextSecret]_vars

\* ------------------------------------------------------------- properties

Success(code) == code \in 200..299
TypedCodes == {400, 401, 403, 404, 405, 500, 503}
Taxonomy ==
  {"BadRequest", "Unauthorized", "PermissionDenied", "NotFound", "MethodNotAllowed",
   "InternalError", "UnavailableError", "FaunaHTTPError", "FaunaError"}
Parseable == server.text.json
Body == server.text.val

\* C1: when the status is in [200,299] and the body parses to a mapping with
\* a `resource` field, a finished call of any public method has returned
\* exactly that field's value and raised nothing.
C1_ReturnsResource ==
  \A c \in Clients :
    (pc[c] = "done" /\ Success(server.status_code) /\ Parseable /\ Body.t = "dict")
      => \A kv \in Body.d :
           kv[1] = "resource" => outcome[c] = Return(PyStr(kv[2]))

C1_Witness ==
  \E c \in Clients :
    /\ pc[c] = "done" /\ server.status_code = 299 /\ call.method = "ping"
    /\ LoggingEnabled(client[c])
    /\ outcome[c] = Return(PyStr("r1"))

C2_ErrorOf(code) ==
  CASE code = 400 -> "BadRequest"
    [] code = 401 -> "Unauthorized"
    [] code = 403 -> "PermissionDenied"
    [] code = 404 -> "NotFound"
    [] code = 405 -> "MethodNotAllowed"
    [] code = 500 -> "InternalError"
    [] code = 503 -> "UnavailableError"

\* C2: when the body parses and the status is one of 400, 401, 403, 404, 405,
\* 500, 503, a finished call has raised the error class of that status,
\* constructed with the parsed body, and has returned nothing.
C2_TypedError ==
  \A c \in Clients :
    (pc[c] = "done" /\ Parseable /\ server.status_code \in TypedCodes)
      => outcome[c] = Raise(C2_ErrorOf(server.status_code), <<Body>>)

C2_Witness ==
  \E c \in Clients :
    /\ pc[c] = "done" /\ server.status_code = 403 /\ Parseable
    /\ outcome[c].kind = "raise" /\ outcome[c].type = "PermissionDenied"
    /\ outcome[c].args = <<PyDict({<<"errors", "e1">>})>>

Carries(o, v) == \E n \in 1..Len(o.args) : o.args[n] = v

\* C3 as stated: when the body parses and the status is neither in [200,299]
\* nor one of the seven typed codes, a finished call has raised the generic
\* HTTP error carrying both the status code and the parsed body.
C3_GenericCarriesStatusAndBody ==
  \A c \in Clients :
    (pc[c] = "done" /\ Parseable
       /\ ~Success(server.status_code) /\ server.status_code \notin TypedCodes)
      => /\ outcome[c].kind = "raise" /\ outcome[c].type = "FaunaHTTPError"
         /\ Carries(outcome[c], Body)
         /\ Carries(outcome[c], PyInt(server.status_code))

\* C3 as amended: in that case the call has raised the generic HTTP error
\* constructed with the parsed body alone; the status code is not passed on.
C3_GenericCarriesBody ==
  \A c \in Clients :
    (pc[c] = "done" /\ Parseable
       /\ ~Success(server.status_code) /\ server.status_code \notin TypedCodes)
      => outcome[c] = Raise("FaunaHTTPError", <<Body>>)

C3_Witness ==
  \E c \in Clients :
    /\ pc[c] = "done" /\ server.status_code = 418 /\ Parseable
    /\ outcome[c].type = "FaunaHTTPError"
    /\ \E d \in Clients : pc[d] = "done" /\ d # c

\* C4: a call hands exactly one request to session.send, whatever its outcome
\* and whether or not it logs: none before the method runs, one while the
\* response is awaited, still one when the call has ended.
C4_OneSend ==
  \A c \in Clients :
    /\ pc[c] = "idle" => sends[c] = 0 /\ sent[c] = NoRequest
    /\ pc[c] \in {"waiting", "done"} => sends[c] = 1 /\ sent[c] # NoRequest

C4_Witness ==
  \E c, d \in Clients :
    /\ pc[c] = "done" /\ outcome[c].type = "UnavailableError" /\ sends[c] = 1
    /\ LoggingEnabled(client[c])
    /\ pc[d] = "done" /\ outcome[d].type = "UnavailableError" /\ sends[d] = 1
    /\ ~LoggingEnabled(client[d])

SameButLogger(c, d) ==
  /\ client[c].state = "ready" /\ client[d].state = "ready"
  /\ client[c].base_url = client[d].base_url
  /\ client[c].auth = client[d].auth

\* C5: two clients that differ only in logging, making the same call against
\* the same response, send the same request and end with the same outcome.
C5_LoggingKeepsControlFlow ==
  \A c, d \in Clients :
    (SameButLogger(c, d) /\ LoggingEnabled(client[c]) /\ ~LoggingEnabled(client[d]))
      => /\ (pc[c] # "idle" /\ pc[d] # "idle") => sent[c] = sent[d]
         /\ (pc[c] = "done" /\ pc[d] = "done") => outcome[c] = outcome[d]

C5_Witness ==
  \E c, d \in Clients :
    /\ SameButLogger(c, d) /\ LoggingEnabled(client[c]) /\ ~LoggingEnabled(client[d])
    /\ pc[c] = "done" /\ pc[d] = "done"
    /\ ~Parseable
    /\ outcome[c].kind = "raise" /\ outcome[d] = outcome[c]
    /\ log[c] # <<>> /\ log[d] = <<>>

Joined(secret, pair) ==
  IF \E n \in 1..Len(secret) : secret[n] = ":"
  THEN pair[1] \o <<":">> \o pair[2] = secret
  ELSE pair[1] = secret /\ pair[2] = <<>>

\* C6: a constructed client's credentials have exactly two components: a
\* two-entry tuple is taken as it is; a string gives the part before its first
\* colon and everything after it (colons included), or the whole string and
\* the empty string when it has no colon; a tuple of another length makes the
\* constructor raise, and that client never sends a request.
C6_SecretParsing ==
  \A c \in Clients :
    LET arg == client[c].secretArg
        auth == client[c].auth
    IN client[c].state # "new" =>
         /\ (arg.kind = "tuple" /\ Len(arg.items) = 2) =>
              client[c].state = "ready" /\ auth.pair = arg.items
         /\ (arg.kind = "tuple" /\ Len(arg.items) # 2) =>
              client[c].state = "failed" /\ sends[c] = 0 /\ pc[c] = "idle"
         /\ arg.kind = "str" =>
              /\ client[c].state = "ready"
              /\ Len(auth.pair) = 2
              /\ \A n \in 1..Len(auth.pair[1]) : auth.pair[1][n] # ":"
              /\ Joined(arg.items[1], auth.pair)
         /\ arg = StrSecret(<<"u", ":", "u", ":", "u">>) =>
              auth.pair = << <<"u">>, <<"u", ":", "u">> >>
         /\ arg = StrSecret(<<"u">>) => auth.pair = << <<"u">>, <<>> >>
         /\ (client[c].state = "ready" /\ arg.kind # "none") =>
              ~auth.isNone /\ Len(auth.pair) = 2

C6_Witness ==
  /\ client["a"].state = "ready"
  /\ client["a"].secretArg = StrSecret(<<"u", ":", "u", ":", "u">>)
  /\ client["a"].auth.pair = << <<"u">>, <<"u", ":", "u">> >>
  /\ pc["a"] = "done"

GivenQuery ==
  IF call.method = "ping"
  THEN {<<"scope", call.scope>>, <<"timeout", call.timeout>>}
  ELSE call.query.items

\* C7: a get or ping call that is given a query mapping sends exactly the
\* mapping's entries whose value is not null; ping() with both arguments null
\* sends an empty mapping.
C7_NullQueryDropped ==
  \A c \in Clients :
    (pc[c] # "idle" /\ (call.method = "ping" \/ (call.method = "get" /\ ~call.query.isNone)))
      => /\ ~sent[c].params.isNone
         /\ \A kv \in GivenQuery : (kv \in sent[c].params.items) <=> (kv[2] # PyNone)
         /\ sent[c].params.items \subseteq GivenQuery
         /\ (call.method = "ping" /\ call.scope = PyNone /\ call.timeout = PyNone)
              => sent[c].params.items = {}

C7_Witness ==
  \E c \in Clients :
    /\ pc[c] = "done"
    /\ call.method = "get"
    /\ call.query = QueryDict({<<"scope", PyNone>>, <<"timeout", PyInt(0)>>})
    /\ sent[c].params = QueryDict({<<"timeout", PyInt(0)>>})

C8_Verb(m) ==
  CASE m = "get" -> "GET"
    [] m = "post" -> "POST"
    [] m = "put" -> "PUT"
    [] m = "patch" -> "PATCH"
    [] m = "delete" -> "DELETE"
    [] m = "query" -> "POST"
    [] m = "ping" -> "GET"
C8_Path ==
  CASE call.method = "query" -> ""
    [] call.method = "ping" -> "ping"
    [] OTHER -> call.path.value

\* C8: the request a public method sends has the method's fixed HTTP verb, the
\* URL made of the base URL, one slash and the path, and the caller's payload:
\* get sends its query and the null data, post/put/patch/delete send their data
\* and no query, query sends POST to the empty path, ping sends GET to "ping".
C8_FixedMethodAndPayload ==
  \A c \in Clients :
    pc[c] # "idle" =>
      /\ sent[c].action = C8_Verb(call.method)
      /\ sent[c].url = client[c].base_url \o <<"/", C8_Path>>
      /\ Len(sent[c].url) = Len(client[c].base_url) + 2
      /\ call.method = "get" =>
           /\ sent[c].data = ToJson(PyNone)
           /\ sent[c].params.isNone = call.query.isNone
           /\ sent[c].params.items \subseteq call.query.items
      /\ call.method \in DataMethods \cup {"query"} =>
           sent[c].data = ToJson(call.data) /\ sent[c].params = NoQuery
      /\ call.method = "ping" => sent[c].data = ToJson(PyNone)

C8_Witness ==
  \E c \in Clients :
    /\ pc[c] = "done" /\ call.method = "delete" /\ call.path.isRef
    /\ sent[c].action = "DELETE"
    /\ sent[c].url = <<"http", "://", "rest.faunadb.com", ":", "8443", "/", "classes/frogs/123">>
    /\ sent[c].data = ToJson(PyDict({<<"name", "Scamper">>}))

\* C9: when the status is in [200,299] and the parsed body has no `resource`
\* field, a finished call has raised an error of the client's taxonomy.
C9_MissingResourceIsTaxonomyError ==
  \A c \in Clients :
    (pc[c] = "done" /\ Success(server.status_code) /\ Parseable
       /\ ~(Body.t = "dict" /\ \E kv \in Body.d : kv[1] = "resource"))
      => outcome[c].kind = "raise" /\ outcome[c].type \in Taxonomy

\* C10: when the body does not parse, a finished call has raised the parse
\* failure, whatever the status code and in both branches of _execute: no
\* taxonomy error and no value.
C10_ParseFailurePropagates ==
  \A c \in Clients :
    (pc[c] = "done" /\ ~Parseable) => outcome[c] = Raise("ParseError", <<>>)

C10_Witness ==
  \E c, d \in Clients :
    /\ pc[c] = "done" /\ pc[d] = "done" /\ ~Parseable /\ server.status_code = 404
    /\ LoggingEnabled(client[c]) /\ ~LoggingEnabled(client[d])
    /\ outcome[c].type = "ParseError" /\ outcome[d].type = "ParseError"

=============================================================================
